---- MODULE Spec2Model ----
(***************************************************************************)
(* Model of homeassistant/components/vesync/humidifier.py: the discovery   *)
(* wiring (_setup_entities) and the VeSyncHumidifierHA entity (available   *)
(* modes, mode read, set_mode, set_humidity, turn_on).                     *)
(*                                                                         *)
(* The vendor device object (pyvesync) is outside the component.  Its      *)
(* metadata (device_name, device_type, mist_modes, mist_levels) is fixed   *)
(* per device; its live fields (details["mode"],                           *)
(* details["mist_virtual_level"], the attribute mode, is_on) are read by   *)
(* a handler at the moment it runs and are inputs of that handler.  The    *)
(* handler's observable effects (device commands, refresh requests,        *)
(* warnings, registrations, the value returned or raised) are recorded in  *)
(* the variables calls, warnings, added and result, which every handler    *)
(* starts afresh.  Handlers run one at a time on the event loop: a handler *)
(* is dispatched when the loop is idle (op = "none") and the loop is idle  *)
(* again once the handler has returned (HandlerReturn).                    *)
(***************************************************************************)
EXTENDS Integers, Sequences, FiniteSets, TLC

VARIABLES
    account,         \* the device objects of the vendor account
    announced,       \* the devices already handed to _setup_entities
    available_modes, \* the class attribute VeSyncHumidifierHA._attr_available_modes
    entities,        \* the constructed entities, in construction order
    subscribed,      \* async_setup_entry has connected the discovery callback
    op,              \* the handler that has just run ("none": the loop is idle)
    ent,             \* the entity it ran on (index into entities, 0: none)
    args,            \* its arguments
    device,          \* the live device fields it read
    calls,           \* device commands and refresh requests it issued, in order
    result,          \* what it returned or raised
    warnings,        \* _LOGGER.warning records it wrote
    added            \* its async_add_entities calls

vars == <<account, announced, available_modes, entities, subscribed, op, ent, args, device,
          calls, result, warnings, added>>

-----------------------------------------------------------------------------
(* Bounds of the model *)

\* devices in the vendor account
MaxDevices == 2

-----------------------------------------------------------------------------
(* Values *)

None == "<None>"

MODE_AUTO == "auto"
MODE_BOOST == "boost"
MODE_ECO == "eco"
MODE_NORMAL == "normal"
MODE_SLEEP == "sleep"

MIST_MODE_AUTO == "auto"
MIST_MODE_SLEEP == "sleep"
MIST_MODE_MANUAL == "manual"

\* mist_modes is a subset of these
VendorModes == {MIST_MODE_AUTO, MIST_MODE_SLEEP, MIST_MODE_MANUAL}

\* the mist level sets a device may support
LevelSets == {{1, 2}, {1, 2, 5}, 1..9}

\* what details["mode"] may hold when it is read
LiveModes == {None, "", MIST_MODE_AUTO, MIST_MODE_SLEEP, MIST_MODE_MANUAL, "turbo"}

\* what details["mist_virtual_level"] may hold when it is read
LiveLevels == {1, 2, 5, 9}

\* what the device attribute mode may hold when it is read
AttrModes == {MIST_MODE_MANUAL, "turbo"}

\* the mode tokens a caller may pass
ModeTokens == {MODE_AUTO, MODE_SLEEP, MODE_ECO, MODE_NORMAL, MODE_BOOST, "away"}

\* the preset modes a caller may pass to turn_on
PresetModes == {None, "", MODE_SLEEP, MODE_BOOST, "away"}

\* the humidity values a caller may pass
Humidities == {0, 45}

DeviceTypes == {"Classic300S", "Core200S", "ESL100"}

\* SKU_TO_BASE_DEVICE.get(device_type): None when the SKU is not listed
SKU_TO_BASE_DEVICE(device_type) ==
    CASE device_type = "Classic300S" -> "Classic300S"
      [] device_type = "Core200S" -> "Core200S"
      [] OTHER -> None

\* DEV_TYPE_TO_HA.get(base): None when the base type is not listed
DEV_TYPE_TO_HA(base) ==
    CASE base = "Classic300S" -> "humidifier"
      [] OTHER -> None

\* the device objects an account may hold: humidifiers with a manual mode and
\* any of the level sets, humidifiers without one (with the full level set),
\* and devices of other types
Devices ==
    [device_name : {"Bedroom"}, device_type : {"Classic300S"},
     mist_modes : {M \in SUBSET VendorModes : MIST_MODE_MANUAL \in M},
     mist_levels : LevelSets]
    \cup
    [device_name : {"Bedroom"}, device_type : {"Classic300S"},
     mist_modes : SUBSET (VendorModes \ {MIST_MODE_MANUAL}),
     mist_levels : {1..9}]
    \cup
    [device_name : {"Hall"}, device_type : DeviceTypes \ {"Classic300S"},
     mist_modes : {{}}, mist_levels : {{}}]

Range(s) == {s[i] : i \in 1..Len(s)}

\* the accounts: at most MaxDevices distinct devices
Accounts == {Range(l) : l \in UNION {[1..n -> Devices] : n \in 0..MaxDevices}}

\* the lists of distinct devices drawn from S
DeviceLists(S) ==
    {l \in UNION {[1..n -> S] : n \in 0..Cardinality(S)} :
        \A i, j \in 1..Len(l) : i # j => l[i] # l[j]}

Max(S) == CHOOSE x \in S : \A y \in S : y <= x

-----------------------------------------------------------------------------
(* Records of what a handler did *)

Cmd(c, n, s) == [cmd |-> c, n |-> n, s |-> s]

DevTurnOn == Cmd("turn_on", 0, "")
DevSetAutoMode == Cmd("set_auto_mode", 0, "")
DevSetHumidityMode(m) == Cmd("set_humidity_mode", 0, m)
DevSetMistLevel(n) == Cmd("set_mist_level", n, "")
DevSetHumidity(h) == Cmd("set_humidity", h, "")
ScheduleUpdate == Cmd("schedule_update_ha_state", 0, "")
\* the entity's own methods, when turn_on invokes them
SelfSetHumidity(h) == Cmd("self.set_humidity", h, "")
SelfSetMode(m) == Cmd("self.set_mode", 0, m)

Return(v) == [kind |-> "return", value |-> v]
Raise(v) == [kind |-> "raise", value |-> v]
NoResult == [kind |-> "none", value |-> None]

NoArgs == [devices |-> <<>>, humidity |-> <<>>, mode |-> None]
NoDevice == [details_mode |-> None, mist_virtual_level |-> 0, mode |-> None,
             is_on |-> FALSE]

-----------------------------------------------------------------------------
(* VeSyncHumidifierHA *)

\* __init__: the appends to self._attr_available_modes, which resolves to the
\* class attribute; the result is the list after the constructor
InitAvailableModes(modes, smarthumidifier) ==
    LET a == IF MIST_MODE_AUTO \in smarthumidifier.mist_modes
             THEN Append(modes, MODE_AUTO) ELSE modes
        b == IF MIST_MODE_SLEEP \in smarthumidifier.mist_modes
             THEN Append(a, MODE_SLEEP) ELSE a
        c == IF MIST_MODE_MANUAL \in smarthumidifier.mist_modes
             THEN IF Cardinality(smarthumidifier.mist_levels) > 2
                  THEN Append(b, MODE_NORMAL) \o <<MODE_ECO, MODE_BOOST>>
                  ELSE Append(b, MODE_NORMAL)
             ELSE b
    IN c

\* entity.available_modes: no instance attribute is ever assigned, so every
\* entity reads the class attribute
AttrAvailableModes(i) == available_modes

\* the mode property with BOOST tied to level 9 instead of the device's top level
Mode_BoostAtNine(smarthumidifier, live) ==
    IF live.details_mode \in {None, ""} THEN Return(None)
    ELSE IF live.details_mode = MIST_MODE_AUTO THEN Return(MODE_AUTO)
    ELSE IF live.details_mode = MIST_MODE_SLEEP THEN Return(MODE_SLEEP)
    ELSE IF live.details_mode = MIST_MODE_MANUAL THEN
        IF live.mist_virtual_level = 1 THEN Return(MODE_ECO)
        ELSE IF live.mist_virtual_level = 9 THEN Return(MODE_BOOST)
        ELSE Return(MODE_NORMAL)
    ELSE Raise(live.mode)

\* the mode property
Mode(smarthumidifier, live) ==
    IF live.details_mode \in {None, ""} THEN Return(None)
    ELSE IF live.details_mode = MIST_MODE_AUTO THEN Return(MODE_AUTO)
    ELSE IF live.details_mode = MIST_MODE_SLEEP THEN Return(MODE_SLEEP)
    ELSE IF live.details_mode = MIST_MODE_MANUAL THEN
        IF live.mist_virtual_level = 1 THEN Return(MODE_ECO)
        ELSE IF live.mist_virtual_level = Max(smarthumidifier.mist_levels)
             THEN Return(MODE_BOOST)
        ELSE Return(MODE_NORMAL)
    ELSE Raise(live.mode)

\* set_mode with the ECO and NORMAL levels exchanged
SetModeCalls_LevelsSwapped(mode) ==
    (IF mode = MODE_AUTO THEN <<DevSetAutoMode>>
     ELSE IF mode = MODE_SLEEP THEN <<DevSetHumidityMode(MIST_MODE_SLEEP)>>
     ELSE IF mode = MODE_ECO THEN <<DevSetMistLevel(5)>>
     ELSE IF mode = MODE_NORMAL THEN <<DevSetMistLevel(1)>>
     ELSE IF mode = MODE_BOOST THEN <<DevSetMistLevel(9)>>
     ELSE <<>>)
    \o <<ScheduleUpdate>>

\* set_mode
SetModeCalls(mode) ==
    (IF mode = MODE_AUTO THEN <<DevSetAutoMode>>
     ELSE IF mode = MODE_SLEEP THEN <<DevSetHumidityMode(MIST_MODE_SLEEP)>>
     ELSE IF mode = MODE_ECO THEN <<DevSetMistLevel(1)>>
     ELSE IF mode = MODE_NORMAL THEN <<DevSetMistLevel(5)>>
     ELSE IF mode = MODE_BOOST THEN <<DevSetMistLevel(9)>>
     ELSE <<>>)
    \o <<ScheduleUpdate>>

\* set_humidity with the power-on issued after the setpoint
SetHumidityCalls_PowerOnLast(humidity, is_on) ==
    <<DevSetHumidity(humidity)>>
    \o (IF ~is_on THEN <<DevTurnOn>> ELSE <<>>)
    \o <<ScheduleUpdate>>

\* set_humidity; is_on is the device's is_on as set_humidity reads it
SetHumidityCalls(humidity, is_on) ==
    (IF ~is_on THEN <<DevTurnOn>> ELSE <<>>)
    \o <<DevSetHumidity(humidity)>>
    \o <<ScheduleUpdate>>

\* Python truth of an optional int (<<>> is None) and of an optional string
TruthyInt(p) == p # <<>> /\ p[1] # 0
TruthyStr(s) == s \notin {None, ""}

\* turn_on with set_mode invoked whether or not a mode was supplied
TurnOnCalls_ModeUnguarded(percentage, preset_mode, is_on) ==
    <<DevTurnOn>>
    \o (IF TruthyInt(percentage)
        THEN <<SelfSetHumidity(percentage[1])>> \o SetHumidityCalls(percentage[1], is_on)
        ELSE <<>>)
    \o <<SelfSetMode(preset_mode)>> \o SetModeCalls(preset_mode)

\* turn_on
TurnOnCalls(percentage, preset_mode, is_on) ==
    <<DevTurnOn>>
    \o (IF TruthyInt(percentage)
        THEN <<SelfSetHumidity(percentage[1])>> \o SetHumidityCalls(percentage[1], is_on)
        ELSE <<>>)
    \o (IF TruthyStr(preset_mode)
        THEN <<SelfSetMode(preset_mode)>> \o SetModeCalls(preset_mode)
        ELSE <<>>)

-----------------------------------------------------------------------------
(* _setup_entities *)

HaDevType(dev) == DEV_TYPE_TO_HA(SKU_TO_BASE_DEVICE(dev.device_type))

\* the loop with a break in place of the continue after the warning
RECURSIVE SetupLoop_BreakAtUnknown(_, _, _)
SetupLoop_BreakAtUnknown(devices, k, st) ==
    IF k > Len(devices) THEN st
    ELSE LET dev == devices[k]
             ha_dev_type == HaDevType(dev)
         IN IF ha_dev_type = "humidifier" THEN
                LET modes == InitAvailableModes(st.modes, dev)
                IN SetupLoop_BreakAtUnknown(devices, k + 1,
                       [st EXCEPT !.modes = modes,
                                  !.ents = Append(@, [smarthumidifier |-> dev,
                                                      init_modes |-> modes])])
            ELSE IF ha_dev_type # "fan" THEN
                [st EXCEPT !.warns = Append(@, <<dev.device_name, dev.device_type>>)]
            ELSE SetupLoop_BreakAtUnknown(devices, k + 1, st)

\* the loop over devices: st is [modes, ents, warns] before devices[k]
RECURSIVE SetupLoop(_, _, _)
SetupLoop(devices, k, st) ==
    IF k > Len(devices) THEN st
    ELSE LET dev == devices[k]
             ha_dev_type == HaDevType(dev)
         IN IF ha_dev_type = "humidifier" THEN
                LET modes == InitAvailableModes(st.modes, dev)
                IN SetupLoop(devices, k + 1,
                       [st EXCEPT !.modes = modes,
                                  !.ents = Append(@, [smarthumidifier |-> dev,
                                                      init_modes |-> modes])])
            ELSE IF ha_dev_type # "fan" THEN
                SetupLoop(devices, k + 1,
                       [st EXCEPT !.warns = Append(@, <<dev.device_name, dev.device_type>>)])
            ELSE SetupLoop(devices, k + 1, st)

SetupEntities(devices) ==
    LET st == SetupLoop(devices, 1,
                        [modes |-> available_modes, ents |-> <<>>, warns |-> <<>>])
    IN /\ announced' = announced \cup Range(devices)
       /\ available_modes' = st.modes
       /\ entities' = entities \o st.ents
       /\ warnings' = st.warns
       /\ added' = <<[entities |-> [i \in 1..Len(st.ents) |-> Len(entities) + i],
                      update_before_add |-> TRUE]>>
       /\ ent' = 0
       /\ args' = [NoArgs EXCEPT !.devices = devices]
       /\ device' = NoDevice
       /\ calls' = <<>>
       /\ result' = Return(None)

-----------------------------------------------------------------------------
(* Handlers *)

Init ==
    /\ account \in Accounts
    /\ announced = {}
    /\ available_modes = <<>>
    /\ entities = <<>>
    /\ subscribed = FALSE
    /\ op = "none"
    /\ ent = 0
    /\ args = NoArgs
    /\ device = NoDevice
    /\ calls = <<>>
    /\ result = NoResult
    /\ warnings = <<>>
    /\ added = <<>>

\* async_setup_entry: connects discover, then sets up the devices known so far
AsyncSetupEntry ==
    /\ op = "none"
    /\ ~subscribed
    /\ \E devices \in DeviceLists(account) :
        /\ SetupEntities(devices)
        /\ subscribed' = TRUE
        /\ op' = "async_setup_entry"
        /\ UNCHANGED account

\* discover: the dispatcher announces devices that are new to the platform
Discover ==
    /\ op = "none"
    /\ subscribed
    /\ \E devices \in DeviceLists(account \ announced) :
        /\ devices # <<>>
        /\ SetupEntities(devices)
        /\ op' = "discover"
        /\ UNCHANGED <<account, subscribed>>

ReadMode ==
    \E i \in 1..Len(entities), m \in LiveModes, l \in LiveLevels, a \in AttrModes :
        LET live == [NoDevice EXCEPT !.details_mode = m, !.mist_virtual_level = l,
                                     !.mode = a]
        IN /\ op = "none"
           \* the level is read only in manual mode, the attribute only to raise
           /\ (m # MIST_MODE_MANUAL => l = 1)
           /\ (m \in {None, ""} \cup VendorModes => a = MIST_MODE_MANUAL)
           /\ op' = "mode"
           /\ ent' = i
           /\ args' = NoArgs
           /\ device' = live
           /\ result' = Mode(entities[i].smarthumidifier, live)
           /\ calls' = <<>>
           /\ warnings' = <<>>
           /\ added' = <<>>
           /\ UNCHANGED <<account, announced, available_modes, entities, subscribed>>

SetMode ==
    \E i \in 1..Len(entities), mode \in ModeTokens :
        /\ op = "none"
        /\ op' = "set_mode"
        /\ ent' = i
        /\ args' = [NoArgs EXCEPT !.mode = mode]
        /\ device' = NoDevice
        /\ calls' = SetModeCalls(mode)
        /\ result' = Return(None)
        /\ warnings' = <<>>
        /\ added' = <<>>
        /\ UNCHANGED <<account, announced, available_modes, entities, subscribed>>

SetHumidity ==
    \E i \in 1..Len(entities), humidity \in Humidities, is_on \in BOOLEAN :
        /\ op = "none"
        /\ op' = "set_humidity"
        /\ ent' = i
        /\ args' = [NoArgs EXCEPT !.humidity = <<humidity>>]
        /\ device' = [NoDevice EXCEPT !.is_on = is_on]
        /\ calls' = SetHumidityCalls(humidity, is_on)
        /\ result' = Return(None)
        /\ warnings' = <<>>
        /\ added' = <<>>
        /\ UNCHANGED <<account, announced, available_modes, entities, subscribed>>

TurnOn ==
    \E i \in 1..Len(entities),
       percentage \in {<<>>} \cup {<<h>> : h \in Humidities},
       preset_mode \in PresetModes,
       is_on \in BOOLEAN :
        \* is_on is read only when set_humidity is invoked
        /\ (~TruthyInt(percentage) => ~is_on)
        /\ op = "none"
        /\ op' = "turn_on"
        /\ ent' = i
        /\ args' = [NoArgs EXCEPT !.humidity = percentage, !.mode = preset_mode]
        /\ device' = [NoDevice EXCEPT !.is_on = is_on]
        /\ calls' = TurnOnCalls(percentage, preset_mode, is_on)
        /\ result' = Return(None)
        /\ warnings' = <<>>
        /\ added' = <<>>
        /\ UNCHANGED <<account, announced, available_modes, entities, subscribed>>

\* the handler has returned: the loop is idle again
HandlerReturn ==
    /\ op # "none"
    /\ op' = "none"
    /\ ent' = 0
    /\ args' = NoArgs
    /\ device' = NoDevice
    /\ calls' = <<>>
    /\ result' = NoResult
    /\ warnings' = <<>>
    /\ added' = <<>>
    /\ UNCHANGED <<account, announced, available_modes, entities, subscribed>>

Next ==
    \/ AsyncSetupEntry
    \/ Discover
    \/ ReadMode
    \/ SetMode
    \/ SetHumidity
    \/ TurnOn
    \/ HandlerReturn

Spec == Init /\ [][Next]_vars

-----------------------------------------------------------------------------
(* Properties *)

IsSetup == op \in {"async_setup_entry", "discover"}

\* the list the documentation derives from one device's metadata
ExpectedModes(d) ==
    (IF "auto" \in d.mist_modes THEN <<MODE_AUTO>> ELSE <<>>)
    \o (IF "sleep" \in d.mist_modes THEN <<MODE_SLEEP>> ELSE <<>>)
    \o (IF "manual" \in d.mist_modes THEN <<MODE_NORMAL>> ELSE <<>>)
    \o (IF "manual" \in d.mist_modes /\ Cardinality(d.mist_levels) > 2
        THEN <<MODE_ECO, MODE_BOOST>> ELSE <<>>)

\* C1: every constructed entity's available-mode list is exactly the list
\* derived from its own device's metadata (AUTO, SLEEP, NORMAL, then ECO and
\* BOOST when manual is supported with more than 2 levels), however many
\* entities were constructed before it.
C1_OwnDeviceModes ==
    \A i \in 1..Len(entities) :
        AttrAvailableModes(i) = ExpectedModes(entities[i].smarthumidifier)

\* C2: an entity's available-mode list stays the one it had when its
\* constructor returned, whatever handlers run later.
C2_ModesFixedAfterInit ==
    \A i \in 1..Len(entities) : AttrAvailableModes(i) = entities[i].init_modes

\* C3: a mode read maps the live state: empty or absent vendor mode to None,
\* "auto" to AUTO, "sleep" to SLEEP, "manual" to ECO at level 1, to BOOST at
\* the largest supported level (other than 1), to NORMAL at any other level;
\* nothing but the live state and the device's levels decides the result.
C3_ReadMapping ==
    (op = "mode" /\ device.details_mode \in {None, "", "auto", "sleep", "manual"}) =>
        LET levels == entities[ent].smarthumidifier.mist_levels
            l == device.mist_virtual_level
            top == l \in levels /\ \A y \in levels : y <= l
        IN /\ result.kind = "return"
           /\ device.details_mode \in {None, ""} => result.value = None
           /\ device.details_mode = "auto" => result.value = MODE_AUTO
           /\ device.details_mode = "sleep" => result.value = MODE_SLEEP
           /\ (device.details_mode = "manual" /\ l = 1) => result.value = MODE_ECO
           /\ (device.details_mode = "manual" /\ l # 1 /\ top) => result.value = MODE_BOOST
           /\ (device.details_mode = "manual" /\ l # 1 /\ ~top) => result.value = MODE_NORMAL

\* C3 witness: a manual read at level 5 of a device whose levels end at 5 is BOOST
C3_Witness ==
    /\ op = "mode"
    /\ device.details_mode = "manual"
    /\ device.mist_virtual_level = 5
    /\ result = Return(MODE_BOOST)

\* C4: a mode read of a non-empty vendor mode other than "auto", "sleep" and
\* "manual" raises, and the error names the vendor mode the read examined.
C4_ErrorNamesExaminedMode ==
    (op = "mode" /\ device.details_mode \notin {None, "", "auto", "sleep", "manual"}) =>
        /\ result.kind = "raise"
        /\ result.value = device.details_mode

\* C5: set_mode issues exactly one device command chosen by the token
\* (AUTO: set_auto_mode, SLEEP: set_humidity_mode("sleep"), ECO, NORMAL, BOOST:
\* set_mist_level of 1, 5, 9) and then requests a refresh; any other token
\* issues no device command and raises nothing.
C5_SetModeCommands ==
    op = "set_mode" =>
        /\ result.kind = "return"
        /\ Len(calls) >= 1
        /\ calls[Len(calls)] = ScheduleUpdate
        /\ LET cmds == SubSeq(calls, 1, Len(calls) - 1)
           IN /\ args.mode = MODE_AUTO => cmds = <<Cmd("set_auto_mode", 0, "")>>
              /\ args.mode = MODE_SLEEP => cmds = <<Cmd("set_humidity_mode", 0, "sleep")>>
              /\ args.mode = MODE_ECO => cmds = <<Cmd("set_mist_level", 1, "")>>
              /\ args.mode = MODE_NORMAL => cmds = <<Cmd("set_mist_level", 5, "")>>
              /\ args.mode = MODE_BOOST => cmds = <<Cmd("set_mist_level", 9, "")>>
              /\ args.mode \notin {MODE_AUTO, MODE_SLEEP, MODE_ECO, MODE_NORMAL, MODE_BOOST}
                    => cmds = <<>>

\* C5 witness: set_mode(BOOST) has issued set_mist_level(9), then the refresh
C5_Witness ==
    /\ op = "set_mode"
    /\ args.mode = MODE_BOOST
    /\ calls = <<DevSetMistLevel(9), ScheduleUpdate>>

\* C6: set_humidity issues turn_on first exactly when the device is off, then
\* the setpoint command with the value as given, then one refresh request.
C6_SetHumidityOrder ==
    op = "set_humidity" =>
        LET h == args.humidity[1]
        IN IF device.is_on
           THEN calls = <<Cmd("set_humidity", h, ""), ScheduleUpdate>>
           ELSE calls = <<Cmd("turn_on", 0, ""), Cmd("set_humidity", h, ""), ScheduleUpdate>>

\* C6 witness: set_humidity(45) on a device that is off
C6_Witness ==
    /\ op = "set_humidity"
    /\ ~device.is_on
    /\ args.humidity = <<45>>
    /\ calls[1] = DevTurnOn
    /\ calls[2] = DevSetHumidity(45)

Positions(c) == {k \in 1..Len(calls) : calls[k].cmd = c}

\* C7: turn_on issues the device power-on first; it invokes set_humidity only
\* if a humidity was supplied (with that value) and set_mode only if a mode was
\* supplied (with that mode), set_humidity before set_mode; with neither
\* supplied the power-on is the only command and no secondary call is made.
\* A supplied humidity other than 0 and a supplied non-empty mode are passed on.
C7_TurnOnOrder ==
    op = "turn_on" =>
        /\ Len(calls) >= 1
        /\ calls[1] = Cmd("turn_on", 0, "")
        /\ Cardinality(Positions("self.set_humidity")) <= 1
        /\ Cardinality(Positions("self.set_mode")) <= 1
        /\ \A k \in Positions("self.set_humidity") :
              /\ args.humidity # <<>>
              /\ calls[k].n = args.humidity[1]
              /\ \E j \in Positions("set_humidity") : j > k /\ calls[j].n = args.humidity[1]
        /\ \A k \in Positions("self.set_mode") :
              /\ args.mode # None
              /\ calls[k].s = args.mode
              /\ \A j \in Positions("self.set_humidity") : j < k
              /\ \A j \in Positions("set_humidity") : j < k
        /\ (args.humidity = <<>> /\ args.mode = None) => calls = <<Cmd("turn_on", 0, "")>>
        /\ (args.humidity # <<>> /\ args.humidity # <<0>>)
              => Positions("self.set_humidity") # {}
        /\ args.mode \notin {None, ""} => Positions("self.set_mode") # {}

\* C7 witness: turn_on() with no argument
C7_Witness ==
    /\ op = "turn_on"
    /\ args.humidity = <<>>
    /\ args.mode = None
    /\ calls = <<DevTurnOn>>

\* C7 second case: turn_on(45, "boost") has invoked both, in order
C7_WitnessBoth ==
    /\ op = "turn_on"
    /\ args.humidity = <<45>>
    /\ args.mode = MODE_BOOST
    /\ Len(calls) = 8

\* the classification _setup_entities looks up for a device
Classification(dev) == DEV_TYPE_TO_HA(SKU_TO_BASE_DEVICE(dev.device_type))

C9_ModeIsAvailable ==
    (/\ op = "mode"
     /\ result.kind = "return"
     /\ device.details_mode \in {None, ""} \cup entities[ent].smarthumidifier.mist_modes
     /\ (device.details_mode = "manual"
            => device.mist_virtual_level \in entities[ent].smarthumidifier.mist_levels))
        => \/ result.value = None
           \/ result.value \in Range(AttrAvailableModes(ent))

\* the live state after the device has applied the one command of a set_mode
Faithful(cs, live) ==
    /\ DevSetAutoMode \in Range(cs) => live.details_mode = "auto"
    /\ DevSetHumidityMode("sleep") \in Range(cs) => live.details_mode = "sleep"
    /\ \A n \in 1..9 : DevSetMistLevel(n) \in Range(cs) =>
          (live.details_mode = "manual" /\ live.mist_virtual_level = n)

\* C10: after set_mode(m) with m in the entity's available-mode list, on a
\* device that applies the command faithfully, the next mode read returns m.
C10_RoundTrip ==
    (op = "set_mode" /\ args.mode \in Range(AttrAvailableModes(ent))) =>
        \A m \in LiveModes, l \in 1..9 :
            LET live == [NoDevice EXCEPT !.details_mode = m, !.mist_virtual_level = l]
            IN Faithful(calls, live) =>
                  Mode(entities[ent].smarthumidifier, live) = Return(args.mode)

====
